---- MODULE Spec2Model ----
(***************************************************************************)
(* A model of backend/server.py: the cleaning pipeline clean_dataframe     *)
(* over a pandas DataFrame.                                                *)
(*                                                                         *)
(* A DataFrame is a record [n, cols]: n is the number of rows and cols the *)
(* sequence of its columns.  A column is [id, name, dtype, cells]: id is   *)
(* the position the column had in the input (bookkeeping, so that a column *)
(* can be followed through renames), name a sequence of characters, dtype  *)
(* "num" (a numeric dtype) or "obj" (the object dtype of text columns).    *)
(* A numeric cell is <<>> (NaN) or <<h>>, the number h/2: values are held  *)
(* in halves so that the median of an even count of integers is exact.     *)
(* A text cell is NA or a sequence of one-character strings.               *)
(*                                                                         *)
(* pc is the position of one call of clean_dataframe; snap keeps the frame *)
(* as it stood after steps 2, 3 and 5 (history, read by the properties     *)
(* only); again holds the result of cleaning the returned frame once more. *)
(*                                                                         *)
(* The second half models the HTTP handlers over the two MongoDB           *)
(* collections and the upload directory: sessions and analyses are the     *)
(* collections (sequences of documents, in insertion order), uploads the   *)
(* files of UPLOAD_DIR, uuids the number of uuid4() values drawn so far,   *)
(* api_key whether EMERGENT_LLM_KEY is set, llm the analyses that await    *)
(* the LLM service, request and response the request handled last and the  *)
(* HTTP response it got.  Spec runs clean_dataframe on one frame; SpecApi   *)
(* runs the handlers, each as one step but for the analysis, which is      *)
(* split at the await of the LLM service; SpecRace runs the handlers split *)
(* at every await, inflight holding the handlers suspended at one.         *)
(***************************************************************************)
EXTENDS Integers, Sequences, FiniteSets, TLC

VARIABLES input, df, report, pc, snap, again

VARIABLES sessions, analyses, uploads, uuids, api_key, llm, request, response

VARIABLES inflight

cleanVars == <<input, df, report, pc, snap, again>>

apiVars == <<sessions, analyses, uploads, uuids, api_key, llm, request, response, inflight>>

vars == <<cleanVars, apiVars>>

\* ------------------------------------------------------------- bounds
MaxRows == 4
MaxCols == 2
MaxNameLen == 3
MaxCells == 6

\* ------------------------------------------------------- characters
SpaceChars == {" ", "\t"}
WordChars == {"a", "b", "c", "d", "x", "y", "n", "N", "o", "e", "u", "l", "U", "k", "w", "_"}
PunctChars == {"!"}

\* The characters in code point order, the order Python compares strings by.
CharOrder == <<"\t", " ", "!", "N", "U", "_", "a", "b", "c", "d", "e", "k", "l", "n", "o", "u", "w", "x", "y">>

CharRank(ch) == CHOOSE i \in 1..Len(CharOrder) : CharOrder[i] = ch

RECURSIVE StrLess(_, _)
StrLess(s, t) ==
    IF t = <<>> THEN FALSE
    ELSE IF s = <<>> THEN TRUE
    ELSE IF CharRank(Head(s)) # CharRank(Head(t)) THEN CharRank(Head(s)) < CharRank(Head(t))
    ELSE StrLess(Tail(s), Tail(t))

\* str.lstrip() / str.rstrip() / str.strip() with no argument: whitespace goes.
RECURSIVE LStrip(_)
LStrip(s) == IF s # <<>> /\ Head(s) \in SpaceChars THEN LStrip(Tail(s)) ELSE s

RECURSIVE RStrip(_)
RStrip(s) ==
    IF s # <<>> /\ s[Len(s)] \in SpaceChars THEN RStrip(SubSeq(s, 1, Len(s) - 1)) ELSE s

Strip(s) == RStrip(LStrip(s))

\* ------------------------------------------------------------- cells
NaN == <<>>
NA == <<"<NA>">>

IsNull(dtype, cell) == IF dtype = "num" THEN cell = NaN ELSE cell = NA

Num(k) == <<2 * k>>

\* ------------------------------------------------------ frame helpers
Range(s) == {s[i] : i \in 1..Len(s)}

RECURSIVE SeqSum(_)
SeqSum(s) == IF s = <<>> THEN 0 ELSE Head(s) + SeqSum(Tail(s))

\* The subsequence of s at the positions of the ordered index sequence idx.
Take(s, idx) == [k \in 1..Len(idx) |-> s[idx[k]]]

\* The members of the index set S among i..n, in increasing order.
RECURSIVE Ordered(_, _, _)
Ordered(i, n, S) ==
    IF i > n THEN <<>>
    ELSE (IF i \in S THEN <<i>> ELSE <<>>) \o Ordered(i + 1, n, S)

TakeRows(t, idx) ==
    [n |-> Len(idx),
     cols |-> [j \in 1..Len(t.cols) |->
                 [t.cols[j] EXCEPT !.cells = Take(t.cols[j].cells, idx)]]]

TakeCols(t, idx) == [n |-> t.n, cols |-> Take(t.cols, idx)]

\* df.isna() at row i of column j.
CellNull(t, j, i) == IsNull(t.cols[j].dtype, t.cols[j].cells[i])

\* df.isna().all(axis=1): all() of no cell is True.
RowAllNull(t, i) == \A j \in 1..Len(t.cols) : CellNull(t, j, i)

RowAnyNull(t, i) == \E j \in 1..Len(t.cols) : CellNull(t, j, i)

\* df.isna().all(axis=0): all() of no cell is True.
ColAllNull(t, j) == \A i \in 1..t.n : CellNull(t, j, i)

NullCount(t, j) == Cardinality({i \in 1..t.n : CellNull(t, j, i)})

Row(t, i) == [j \in 1..Len(t.cols) |-> t.cols[j].cells[i]]

\* ------------------------------------------------------------ report
Entry(kind, n, col, val) == [kind |-> kind, n |-> n, col |-> col, val |-> val]

\* Log appending the issue without its action.
LogIssueOnly(rep, issue, action) ==
    [rep EXCEPT !.issues_found = Append(@, issue)]

Log(rep, issue, action) ==
    [rep EXCEPT !.issues_found = Append(@, issue), !.actions_taken = Append(@, action)]

\* NewReport with the two counts taken from the wrong axis.
NewReportSwapped(t) ==
    [original_rows |-> Len(t.cols),
     original_columns |-> t.n,
     issues_found |-> <<>>,
     actions_taken |-> <<>>,
     final_rows |-> 0,
     final_columns |-> 0,
     rows_removed |-> 0,
     data_quality_score |-> 0]

NewReport(t) ==
    [original_rows |-> t.n,
     original_columns |-> Len(t.cols),
     issues_found |-> <<>>,
     actions_taken |-> <<>>,
     final_rows |-> 0,
     final_columns |-> 0,
     rows_removed |-> 0,
     data_quality_score |-> 0]

\* round(num / den, 0) for num >= 0, den > 0: to the nearest integer, a tie to
\* the even one (Python's round and the format specs round half to even).
RoundHalfEven(num, den) ==
    LET q == num \div den
        r == num % den
    IN  IF 2 * r < den THEN q
        ELSE IF 2 * r > den THEN q + 1
        ELSE IF q % 2 = 0 THEN q ELSE q + 1

Max(a, b) == IF a >= b THEN a ELSE b

\* -------------------------------------------------- step 1: empty rows
EmptyRows(t) == Cardinality({i \in 1..t.n : RowAllNull(t, i)})

Step1Frame(t) ==
    IF EmptyRows(t) > 0
    THEN TakeRows(t, Ordered(1, t.n, {i \in 1..t.n : ~RowAllNull(t, i)}))
    ELSE t

Step1Report(t, rep) ==
    IF EmptyRows(t) > 0
    THEN Log(rep, Entry("empty_rows", EmptyRows(t), <<>>, <<>>),
                  Entry("removed_empty_rows", EmptyRows(t), <<>>, <<>>))
    ELSE rep

\* ----------------------------------------------- step 2: empty columns
EmptyCols(t) == Cardinality({j \in 1..Len(t.cols) : ColAllNull(t, j)})

\* df.columns[df.isna().all()].tolist()
EmptyColNames(t) ==
    LET idx == Ordered(1, Len(t.cols), {j \in 1..Len(t.cols) : ColAllNull(t, j)})
    IN  [k \in 1..Len(idx) |-> t.cols[idx[k]].name]

Step2Frame(t) ==
    IF EmptyCols(t) > 0
    THEN TakeCols(t, Ordered(1, Len(t.cols), {j \in 1..Len(t.cols) : ~ColAllNull(t, j)}))
    ELSE t

Step2Report(t, rep) ==
    IF EmptyCols(t) > 0
    THEN Log(rep, Entry("empty_columns", EmptyCols(t), <<>>, EmptyColNames(t)),
                  Entry("removed_empty_columns", EmptyCols(t), <<>>, <<>>))
    ELSE rep

\* ------------------------------------------ step 3: per-column nulls
\* The non-null cells of a column, in row order.
NonNull(col) ==
    Take(col.cells, Ordered(1, Len(col.cells),
                            {i \in 1..Len(col.cells) : ~IsNull(col.dtype, col.cells[i])}))

\* Median taken over the distinct values only, as it would be were the
\* duplicates gone before the fill.
MedianOfDistinct(col) ==
    LET all == [k \in 1..Len(NonNull(col)) |-> NonNull(col)[k][1]]
        vals == Take(all, Ordered(1, Len(all),
                                  {k \in 1..Len(all) : \A i \in 1..(k - 1) : all[i] # all[k]}))
        srt == SortSeq(vals, LAMBDA a, b : a < b)
        m == Len(srt)
    IN  IF m % 2 = 1 THEN srt[(m + 1) \div 2]
        ELSE (srt[m \div 2] + srt[m \div 2 + 1]) \div 2

\* Series.median() of a numeric column (NaN skipped), in halves: the middle
\* value of the sorted non-null values, the mean of the two middle ones when
\* their count is even.
Median(col) ==
    LET vals == [k \in 1..Len(NonNull(col)) |-> NonNull(col)[k][1]]
        srt == SortSeq(vals, LAMBDA a, b : a < b)
        m == Len(srt)
    IN  IF m % 2 = 1 THEN srt[(m + 1) \div 2]
        ELSE (srt[m \div 2] + srt[m \div 2 + 1]) \div 2

Occurrences(col, v) == Cardinality({i \in 1..Len(col.cells) : col.cells[i] = v})

\* Series.mode() of a text column (nulls skipped): the most frequent values,
\* sorted; the caller takes the first.  <<>> when there is no non-null value.
ModeValues(col) ==
    LET vals == Range(NonNull(col))
    IN  {v \in vals : \A w \in vals : Occurrences(col, w) <= Occurrences(col, v)}

Unknown == <<"U", "n", "k", "n", "o", "w", "n">>

FillValue(col) ==
    IF ModeValues(col) = {} THEN Unknown
    ELSE CHOOSE v \in ModeValues(col) : \A w \in ModeValues(col) : w = v \/ StrLess(v, w)

\* Series.fillna(v)
FillNa(col, v) ==
    [col EXCEPT !.cells = [i \in 1..Len(col.cells) |->
                             IF IsNull(col.dtype, col.cells[i]) THEN v ELSE col.cells[i]]]

\* OverHalfNull with the comparison written >= 50.
OverHalfNullInclusive(t, j) == NullCount(t, j) * 100 >= 50 * t.n

\* null_pct > 50, with null_pct = (null_count / len(df)) * 100
OverHalfNull(t, j) == NullCount(t, j) * 100 > 50 * t.n

\* The column that replaces column j of t (cols_with_nulls holds the columns
\* whose null count is > 0; the others are left alone).
Step3Col(t, j) ==
    LET col == t.cols[j]
    IN  IF NullCount(t, j) = 0 THEN col
        ELSE IF col.dtype = "num" THEN FillNa(col, <<Median(col)>>)
        ELSE FillNa(col, FillValue(col))

Step3Frame(t) ==
    LET kept == Ordered(1, Len(t.cols),
                        {j \in 1..Len(t.cols) : ~(NullCount(t, j) > 0 /\ OverHalfNull(t, j))})
    IN  [n |-> t.n, cols |-> [k \in 1..Len(kept) |-> Step3Col(t, kept[k])]]

\* The entries column j adds to the report: the percentage is logged in tenths
\* ({null_pct:.1f}), the median in halves.
Step3ColReport(t, j, rep) ==
    LET col == t.cols[j]
    IN  IF NullCount(t, j) = 0 THEN rep
        ELSE IF OverHalfNull(t, j)
        THEN Log(rep, Entry("column_null_pct", RoundHalfEven(NullCount(t, j) * 1000, t.n), col.name, <<>>),
                      Entry("removed_column_gt50_nulls", 50, col.name, <<>>))
        ELSE IF col.dtype = "num"
        THEN Log(rep, Entry("column_nulls", NullCount(t, j), col.name, <<>>),
                      Entry("filled_with_median", Median(col), col.name, <<>>))
        ELSE Log(rep, Entry("column_nulls", NullCount(t, j), col.name, <<>>),
                      Entry("filled_with_value", 0, col.name, FillValue(col)))

RECURSIVE Step3ReportFrom(_, _, _)
Step3ReportFrom(t, j, rep) ==
    IF j > Len(t.cols) THEN rep
    ELSE Step3ReportFrom(t, j + 1, Step3ColReport(t, j, rep))

Step3Report(t, rep) == Step3ReportFrom(t, 1, rep)

\* --------------------------------------------- step 4: duplicate rows
\* df.duplicated(): a row is marked when an earlier row equals it.
Duplicated(t, i) == \E k \in 1..(i - 1) : Row(t, k) = Row(t, i)

Duplicates(t) == Cardinality({i \in 1..t.n : Duplicated(t, i)})

Step4Frame(t) ==
    IF Duplicates(t) > 0
    THEN TakeRows(t, Ordered(1, t.n, {i \in 1..t.n : ~Duplicated(t, i)}))
    ELSE t

Step4Report(t, rep) ==
    IF Duplicates(t) > 0
    THEN Log(rep, Entry("duplicate_rows", Duplicates(t), <<>>, <<>>),
                  Entry("removed_duplicate_rows", Duplicates(t), <<>>, <<>>))
    ELSE rep

\* ------------------------------------- step 5: whitespace in text cells
\* The values df[col].replace([...], pd.NA) turns into NA.
NullLike ==
    {<<>>, <<"n", "a", "n">>, <<"N", "o", "n", "e">>, <<"N", "a", "N">>, <<"n", "u", "l", "l">>}

\* astype(str) of a cell of an object column: a null reads "nan".
AsStr(cell) == IF cell = NA THEN <<"n", "a", "n">> ELSE cell

\* NormalizeCell with the two calls in the other order: replace, then strip.
NormalizeCellReplaceFirst(cell) ==
    IF AsStr(cell) \in NullLike THEN NA ELSE Strip(AsStr(cell))

NormalizeCell(cell) ==
    IF Strip(AsStr(cell)) \in NullLike THEN NA ELSE Strip(AsStr(cell))

Step5Col(col) ==
    IF col.dtype = "obj"
    THEN [col EXCEPT !.cells = [i \in 1..Len(col.cells) |-> NormalizeCell(col.cells[i])]]
    ELSE col

Step5Frame(t) == [n |-> t.n, cols |-> [j \in 1..Len(t.cols) |-> Step5Col(t.cols[j])]]

\* ------------------------------------ step 6: rows with remaining nulls
RemainingNulls(t) == SeqSum([j \in 1..Len(t.cols) |-> NullCount(t, j)])

Step6Frame(t) ==
    IF RemainingNulls(t) > 0
    THEN TakeRows(t, Ordered(1, t.n, {i \in 1..t.n : ~RowAnyNull(t, i)}))
    ELSE t

Step6Report(t, rep) ==
    LET rows_removed == t.n - Step6Frame(t).n
    IN  IF RemainingNulls(t) > 0 /\ rows_removed > 0
        THEN Log(rep, Entry("rows_with_remaining_nulls", rows_removed, <<>>, <<>>),
                      Entry("removed_rows_with_remaining_nulls", rows_removed, <<>>, <<>>))
        ELSE rep

\* ------------------------------------------------ step 7: column names
\* str.replace(r'[^\w\s]', '', regex=True): every character that is neither a
\* word character nor whitespace is removed.
RECURSIVE RemoveSpecial(_)
RemoveSpecial(s) ==
    IF s = <<>> THEN <<>>
    ELSE (IF Head(s) \in WordChars \cup SpaceChars THEN <<Head(s)>> ELSE <<>>)
         \o RemoveSpecial(Tail(s))

\* str.replace(' ', '_'): every space character becomes an underscore.
SpacesToUnderscores(s) == [i \in 1..Len(s) |-> IF s[i] = " " THEN "_" ELSE s[i]]

StandardizeName(name) == SpacesToUnderscores(RemoveSpecial(Strip(name)))

Step7Frame(t) ==
    [n |-> t.n,
     cols |-> [j \in 1..Len(t.cols) |->
                 [t.cols[j] EXCEPT !.name = StandardizeName(t.cols[j].name)]]]

\* ------------------------------------------------- the final counters
\* QualityScore cut to a tenth instead of rounded.
QualityScoreTruncated(final_rows, original_rows) ==
    (final_rows * 1000) \div Max(original_rows, 1)

\* round(final_rows / max(original_rows, 1) * 100, 1), in tenths.
QualityScore(final_rows, original_rows) ==
    RoundHalfEven(final_rows * 1000, Max(original_rows, 1))

Synthetic == Entry("no_issues_found", 0, <<>>, <<>>)

AlreadyClean == Entry("data_was_already_clean", 0, <<>>, <<>>)

Counters(t, rep) ==
    [rep EXCEPT !.final_rows = t.n,
                !.final_columns = Len(t.cols),
                !.rows_removed = rep.original_rows - t.n,
                !.data_quality_score = QualityScore(t.n, rep.original_rows)]

\* Finish without the synthetic entry.
FinishNoSynthetic(t, rep) == Counters(t, rep)

Finish(t, rep) ==
    IF Len(Counters(t, rep).issues_found) = 0
    THEN Log(Counters(t, rep), Synthetic, AlreadyClean)
    ELSE Counters(t, rep)

\* ------------------------------------------------- the whole function
\* clean_dataframe(df, filename): the returned frame and report.
CleanDataframe(t) ==
    LET t1 == Step1Frame(t)
        r1 == Step1Report(t, NewReport(t))
        t2 == Step2Frame(t1)
        r2 == Step2Report(t1, r1)
        t3 == Step3Frame(t2)
        r3 == Step3Report(t2, r2)
        t4 == Step4Frame(t3)
        r4 == Step4Report(t3, r3)
        t5 == Step5Frame(t4)
        t6 == Step6Frame(t5)
        r6 == Step6Report(t5, r4)
        t7 == Step7Frame(t6)
    IN  [df |-> t7, report |-> Finish(t7, r6)]

\* ------------------------------------------------------------ inputs
NumValues == {NaN, Num(1), Num(2)}

TextValues == {NA, <<"x">>, <<"x", " ">>, <<" ">>, <<"n", "a", "n">>}

DefaultNames == <<"a", "b", "c", "d">>

NameChars == {"a"} \cup SpaceChars \cup PunctChars

\* The columns of r rows a parsed file can hold: numeric or text.
ColumnData(r) ==
    {[dtype |-> "num", cells |-> f] : f \in [1..r -> NumValues]}
    \cup {[dtype |-> "obj", cells |-> f] : f \in [1..r -> TextValues]}

MkFrame(r, data, names) ==
    [n |-> r,
     cols |-> [j \in 1..Len(data) |->
                 [id |-> j, name |-> names[j], dtype |-> data[j].dtype, cells |-> data[j].cells]]]

Names == UNION {[1..k -> NameChars] : k \in 1..MaxNameLen}

\* A frame of any shape up to MaxRows x MaxCols and MaxCells cells, with plain
\* column names.
CellFrame(t) ==
    \E r \in 0..MaxRows, c \in 0..MaxCols :
        /\ r * c <= MaxCells
        /\ \E data \in [1..c -> ColumnData(r)] :
               t = MkFrame(r, data, [j \in 1..c |-> <<DefaultNames[j]>>])

\* A one-cell frame whose column name is any name of up to MaxNameLen characters.
NameFrame(t) ==
    \E nm \in Names : t = MkFrame(1, <<[dtype |-> "num", cells |-> <<Num(1)>>]>>, <<nm>>)

WideNumValues == NumValues \cup {Num(5)}

\* A numeric column of up to MaxRows rows beside a complete text column, so
\* that a missing number does not make its row an empty one.
KeyedFrame(t) ==
    \E r \in 0..MaxRows :
        \E nums \in [1..r -> WideNumValues] :
            t = MkFrame(r, <<[dtype |-> "num", cells |-> nums],
                             [dtype |-> "obj", cells |-> [i \in 1..r |-> <<"x">>]]>>,
                        [j \in 1..2 |-> <<DefaultNames[j]>>])

\* A one-row frame of two numeric columns: the second is named "a", the first
\* has any other name of up to MaxNameLen characters.
NamePairFrame(t) ==
    \E nm \in Names \ {<<"a">>} :
        t = MkFrame(1, <<[dtype |-> "num", cells |-> <<Num(1)>>],
                         [dtype |-> "num", cells |-> <<Num(2)>>]>>,
                    <<nm, <<"a">>>>)

\* ------------------------------------------------ the server at start
\* No request handled yet.
NoRequest == [op |-> "none", session_id |-> <<>>, files |-> <<>>, answer |-> <<>>]

NoResponse == [status |-> 0, detail |-> [msg |-> "", filename |-> <<>>], body |-> <<>>]

\* Empty collections, an empty upload directory, nothing in flight.
StoreEmpty ==
    /\ sessions = <<>>
    /\ analyses = <<>>
    /\ uploads = {}
    /\ uuids = 0
    /\ llm = <<>>
    /\ inflight = <<>>
    /\ request = NoRequest
    /\ response = NoResponse

\* --------------------------------------------------------- the run
Init ==
    /\ CellFrame(input) \/ NameFrame(input) \/ KeyedFrame(input) \/ NamePairFrame(input)
    /\ df = input
    /\ report = NewReport(input)
    /\ pc = "step1"
    /\ snap = [after2 |-> input, after3 |-> input, after5 |-> input]
    /\ again = <<>>
    /\ api_key = FALSE
    /\ StoreEmpty

Step1 ==
    /\ pc = "step1"
    /\ pc' = "step2"
    /\ df' = Step1Frame(df)
    /\ report' = Step1Report(df, report)
    /\ UNCHANGED <<input, snap, again, apiVars>>

Step2 ==
    /\ pc = "step2"
    /\ pc' = "step3"
    /\ df' = Step2Frame(df)
    /\ report' = Step2Report(df, report)
    /\ snap' = [snap EXCEPT !.after2 = df']
    /\ UNCHANGED <<input, again, apiVars>>

Step3 ==
    /\ pc = "step3"
    /\ pc' = "step4"
    /\ df' = Step3Frame(df)
    /\ report' = Step3Report(df, report)
    /\ snap' = [snap EXCEPT !.after3 = df']
    /\ UNCHANGED <<input, again, apiVars>>

Step4 ==
    /\ pc = "step4"
    /\ pc' = "step5"
    /\ df' = Step4Frame(df)
    /\ report' = Step4Report(df, report)
    /\ UNCHANGED <<input, snap, again, apiVars>>

Step5 ==
    /\ pc = "step5"
    /\ pc' = "step6"
    /\ df' = Step5Frame(df)
    /\ snap' = [snap EXCEPT !.after5 = df']
    /\ UNCHANGED <<input, report, again, apiVars>>

Step6 ==
    /\ pc = "step6"
    /\ pc' = "step7"
    /\ df' = Step6Frame(df)
    /\ report' = Step6Report(df, report)
    /\ UNCHANGED <<input, snap, again, apiVars>>

Step7 ==
    /\ pc = "step7"
    /\ pc' = "return"
    /\ df' = Step7Frame(df)
    /\ UNCHANGED <<input, report, snap, again, apiVars>>

Return ==
    /\ pc = "return"
    /\ pc' = "done"
    /\ report' = Finish(df, report)
    /\ UNCHANGED <<input, df, snap, again, apiVars>>

\* The caller cleans the returned frame once more.
Reclean ==
    /\ pc = "done"
    /\ pc' = "recleaned"
    /\ again' = <<CleanDataframe(df)>>
    /\ UNCHANGED <<input, df, report, snap, apiVars>>

Next ==
    \/ Step1
    \/ Step2
    \/ Step3
    \/ Step4
    \/ Step5
    \/ Step6
    \/ Step7
    \/ Return
    \/ Reclean

Spec == Init /\ [][Next]_vars

\* ===================================================================
\* The HTTP handlers
\* ===================================================================
\* ------------------------------------------------------------- bounds
\* uuid4() values drawn in one run.
MaxUuid == 2

\* Files sent in one upload request.
MaxFiles == 2

\* Analyses awaiting the LLM service at one time.
MaxInFlight == 1

\* ------------------------------------------------------- identifiers
\* The values uuid4() returns, in the order drawn: each is fresh.
UuidPool == <<"u1", "u2", "u3", "u4", "u5", "u6", "u7", "u8", "u9">>

Uuid4(drawn) == UuidPool[drawn + 1]

\* The uuids kept back for the analyses in flight: each draws its
\* analysis_id when the service has answered.
Reserved == Len(llm)

\* A session id a client makes up itself.
ClientIds == {"s1"}

\* datetime.now(timezone.utc).isoformat(): one instant, the runs are short.
Now == "now"

\* ------------------------------------------------------------ files
ValidExtensions == {".csv", ".xlsx", ".xls"}

\* What pd.read_csv / pd.read_excel return for the contents of a file; a
\* file with contents "garbage" makes them raise.
FileFrames ==
    [table1 |-> MkFrame(1, <<[dtype |-> "num", cells |-> <<Num(1)>>]>>, <<<<"a">>>>),
     table2 |-> MkFrame(2, <<[dtype |-> "obj", cells |-> <<<<"x", " ">>, <<"x">>>>]>>,
                        <<<<"a", " ">>>>)]

Parses(content) == content \in DOMAIN FileFrames

ReadFrame(content) == FileFrames[content]

\* The files a client sends: a file name <<stem, suffix>> and the contents.
UploadFile(stem, ext, content) == [filename |-> <<stem, ext>>, content |-> content]

UploadFiles ==
    {UploadFile("a", ".csv", "table1"),
     UploadFile("b", ".xlsx", "table2"),
     UploadFile("c", ".txt", "table1"),
     UploadFile("d", ".csv", "garbage")}

\* Path(filename).suffix
Suffix(filename) == filename[2]

\* filename.endswith(('.csv', '.xlsx', '.xls'))
HasValidExtension(filename) == Suffix(filename) \in ValidExtensions

\* ------------------------------------------------------ collections
\* find_one({"session_id": sid}): the positions of the matching documents.
Matching(coll, sid) == {k \in 1..Len(coll) : coll[k].session_id = sid}

Min(S) == CHOOSE x \in S : \A y \in S : x <= y

Found(coll, sid) == Matching(coll, sid) # {}

FindOne(coll, sid) == coll[Min(Matching(coll, sid))]

\* update_one: the first matching document is replaced, none if none matches.
UpdateOne(coll, sid, doc) ==
    IF Found(coll, sid)
    THEN [coll EXCEPT ![Min(Matching(coll, sid))] = doc]
    ELSE coll

\* delete_one: the first matching document is removed.
DeleteOne(coll, sid) ==
    IF Found(coll, sid)
    THEN Take(coll, Ordered(1, Len(coll), (1..Len(coll)) \ {Min(Matching(coll, sid))}))
    ELSE coll

\* ------------------------------------------------------- responses
Detail(msg, filename) == [msg |-> msg, filename |-> filename]

Ok(body) == [status |-> 200, detail |-> Detail("", <<>>), body |-> body]

\* raise HTTPException(status_code, detail)
HttpError(status, msg, filename) ==
    [status |-> status, detail |-> Detail(msg, filename), body |-> <<>>]

\* An exception no handler catches: the framework answers 500.
InternalServerError == HttpError(500, "Internal Server Error", <<>>)

SessionNotFound == HttpError(404, "Session not found", <<>>)

\* The request handled last: the operation, the session_id and files sent and,
\* for an analysis resumed, the answer of the LLM service it was resumed with.
Request(op, sid, files, answer) ==
    [op |-> op, session_id |-> sid, files |-> files, answer |-> answer]

\* ------------------------------------------------ POST /api/sessions
\* The response model: the four fields of SessionResponse, others ignored.
SessionResponse(doc) ==
    [session_id |-> doc.session_id,
     files_uploaded |-> doc.files_uploaded,
     created_at |-> doc.created_at,
     analyses |-> doc.analyses]

NewSession(sid) ==
    [session_id |-> sid,
     files_uploaded |-> 0,
     created_at |-> Now,
     files |-> <<>>,
     analyses |-> <<>>,
     chat_history |-> <<>>]

\* session_data.session_id is None or "": both count as false.
Falsy(sent) == sent = <<>> \/ sent[1] = ""

\* The session ids in the collection.
SessionIds == {sessions[k].session_id : k \in 1..Len(sessions)}

\* What a client may put in the session_id field: nothing, the empty
\* string, an id of its own or an id it was given.
SentIds == {<<>>, <<"">>} \cup {<<s>> : s \in ClientIds \cup SessionIds}

create_or_get_session(sent) ==
    LET session_id == IF Falsy(sent) THEN Uuid4(uuids) ELSE sent[1]
    IN  /\ Falsy(sent) => uuids + Reserved < MaxUuid
        /\ uuids' = IF Falsy(sent) THEN uuids + 1 ELSE uuids
        /\ request' = Request("create_or_get_session", sent, <<>>, <<>>)
        /\ IF Found(sessions, session_id)
           THEN /\ response' = Ok(SessionResponse(FindOne(sessions, session_id)))
                /\ sessions' = sessions
           ELSE /\ sessions' = Append(sessions, NewSession(session_id))
                /\ response' = Ok(SessionResponse(NewSession(session_id)))
        /\ UNCHANGED <<analyses, uploads, api_key, llm, inflight, cleanVars>>

\* -------------------------------------------------- POST /api/upload
FileInfo(file_id, file, frame) ==
    [file_id |-> file_id,
     original_name |-> file.filename,
     path |-> <<file_id, Suffix(file.filename)>>,
     rows |-> frame.n,
     columns |-> Len(frame.cols),
     column_names |-> [j \in 1..Len(frame.cols) |-> frame.cols[j].name],
     uploaded_at |-> Now]

Stored(path, content) == [path |-> path, content |-> content]

\* The loop over the files of one request, from file i on: dir is the upload
\* directory, drawn the uuids drawn, uploaded the file_info records so far.
\* The result holds the error that ended the loop, if one did.
RECURSIVE UploadLoop(_, _, _, _, _)
UploadLoop(files, i, dir, drawn, uploaded) ==
    IF i > Len(files)
    THEN [dir |-> dir, drawn |-> drawn, uploaded |-> uploaded, error |-> <<>>]
    ELSE IF ~HasValidExtension(files[i].filename)
    THEN [dir |-> dir, drawn |-> drawn, uploaded |-> uploaded,
          error |-> <<HttpError(400, "Invalid file type", files[i].filename)>>]
    ELSE LET file_id == Uuid4(drawn)
             file_path == <<file_id, Suffix(files[i].filename)>>
             written == dir \cup {Stored(file_path, files[i].content)}
         IN  IF Parses(files[i].content)
             THEN UploadLoop(files, i + 1, written, drawn + 1,
                             Append(uploaded,
                                    FileInfo(file_id, files[i], ReadFrame(files[i].content))))
             ELSE [dir |-> written \ {Stored(file_path, files[i].content)},
                   drawn |-> drawn + 1, uploaded |-> uploaded,
                   error |-> <<HttpError(400, "Error reading file", files[i].filename)>>]

\* $push files $each uploaded, $inc files_uploaded len(uploaded)
PushFiles(doc, uploaded) ==
    [doc EXCEPT !.files = doc.files \o uploaded,
                !.files_uploaded = doc.files_uploaded + Len(uploaded)]

\* UploadBody counting the files of this request only.
UploadBodyThisRequest(uploaded, current_count) ==
    [message |-> Len(uploaded),
     files |-> uploaded,
     total_files |-> Len(uploaded)]

UploadBody(uploaded, current_count) ==
    [message |-> Len(uploaded),
     files |-> uploaded,
     total_files |-> current_count + Len(uploaded)]

FileLists == UNION {[1..k -> UploadFiles] : k \in 1..MaxFiles}

upload_files(session_id, files) ==
    /\ request' = Request("upload_files", <<session_id>>, files, <<>>)
    /\ IF ~Found(sessions, session_id)
       THEN /\ response' = SessionNotFound
            /\ UNCHANGED <<sessions, uploads, uuids>>
       ELSE LET session == FindOne(sessions, session_id)
                current_count == session.files_uploaded
                loop == UploadLoop(files, 1, uploads, uuids, <<>>)
            IN  /\ uuids + Reserved + Len(files) <= MaxUuid
                /\ uploads' = loop.dir
                /\ uuids' = loop.drawn
                /\ IF loop.error # <<>>
                   THEN /\ response' = loop.error[1]
                        /\ sessions' = sessions
                   ELSE /\ sessions' = UpdateOne(sessions, session_id,
                                                 PushFiles(session, loop.uploaded))
                        /\ response' = Ok(UploadBody(loop.uploaded, current_count))
    /\ UNCHANGED <<analyses, api_key, llm, inflight, cleanVars>>

\* ------------------------------------------------------ JSON values
Str(s) == [type |-> "str", v |-> s]

Number(s) == [type |-> "number", v |-> s]

Null == [type |-> "null", v |-> ""]

List(items) == [type |-> "list", v |-> items]

\* A JSON object: v maps its keys to JSON values.
Object(items) == [type |-> "dict", v |-> items]

\* --------------------------------------------------- the LLM service
\* The documents a response of the service may hold, by name: the report
\* asked for, the report without its summary, the report with a number for
\* its summary, an array in place of the object, and the report with keys
\* of its own named analysis_id, session_id and created_at.
ReportItems ==
    [summary |-> Str("Sales rose"),
     key_metrics |-> List(<<Object([name |-> Str("Revenue")])>>),
     visualizations |-> List(<<>>),
     problems |-> List(<<Str("Revenue dropped 15% in Q3")>>),
     recommendations |-> List(<<Str("Implement automated follow-ups")>>),
     executive_report |-> Str("# Report")]

JsonDocs ==
    [REPORT |-> Object(ReportItems),
     NO_SUMMARY |-> Object([k \in DOMAIN ReportItems \ {"summary"} |-> ReportItems[k]]),
     NUMBER_SUMMARY |-> Object([ReportItems EXCEPT !.summary = Number("15")]),
     ARRAY |-> List(<<>>),
     OWN_IDS |-> Object(ReportItems @@ [analysis_id |-> Str("llm-id"),
                                        session_id |-> Str("llm-session"),
                                        created_at |-> Str("llm-time")])]

\* A response text is a sequence of tokens: FENCE (three backquotes), the
\* word json, a JSON document (by name) or prose.
LlmTexts ==
    {<<"REPORT">>,
     <<"FENCE", "json", "REPORT", "FENCE">>,
     <<"prose">>,
     <<"FENCE", "prose", "FENCE">>,
     <<"NO_SUMMARY">>,
     <<"NUMBER_SUMMARY">>,
     <<"ARRAY">>,
     <<"OWN_IDS">>}

Text(tokens) == [kind |-> "text", text |-> tokens]

\* chat.send_message raises.
UpstreamException == [kind |-> "exception", text |-> <<>>]

LlmOutcomes == {Text(t) : t \in LlmTexts} \cup {UpstreamException}

\* text.split(FENCE)[1]: the tokens between the first fence and the next.
RECURSIVE UpToFence(_)
UpToFence(tokens) ==
    IF tokens = <<>> \/ Head(tokens) = "FENCE" THEN <<>>
    ELSE <<Head(tokens)>> \o UpToFence(Tail(tokens))

\* Lines 302-307: the text inside a leading fence, without a leading json.
StripFence(tokens) ==
    IF tokens # <<>> /\ Head(tokens) = "FENCE"
    THEN LET inner == UpToFence(Tail(tokens))
         IN  IF inner # <<>> /\ Head(inner) = "json" THEN Tail(inner) ELSE inner
    ELSE tokens

\* json.loads raises JSONDecodeError unless the text is one JSON document.
IsJson(tokens) == Len(tokens) = 1 /\ tokens[1] \in DOMAIN JsonDocs

JsonLoads(tokens) == JsonDocs[tokens[1]]

\* The document returned when the response cannot be parsed.
FallbackItems ==
    [summary |-> Str("Analysis completed but response parsing failed. Please try again."),
     key_metrics |-> List(<<>>),
     visualizations |-> List(<<>>),
     problems |-> List(<<Str("Unable to parse analysis results")>>),
     recommendations |-> List(<<Str("Please retry the analysis")>>),
     executive_report |-> Str("Analysis pending - please retry.")]

Returns(value) == [raised |-> <<>>, value |-> value]

Raises(error) == [raised |-> <<error>>, value |-> Null]

\* ParseOutcome with an upstream failure answered by the fallback document.
ParseOutcomeSwallowing(outcome) ==
    IF outcome.kind = "exception"
    THEN Returns(Object(FallbackItems))
    ELSE IF IsJson(StripFence(outcome.text))
    THEN Returns(JsonLoads(StripFence(outcome.text)))
    ELSE Returns(Object(FallbackItems))

\* ParseOutcome with JSONDecodeError left to the except Exception clause.
ParseOutcomeUncaught(outcome) ==
    IF outcome.kind = "exception" \/ ~IsJson(StripFence(outcome.text))
    THEN Raises(HttpError(500, "Analysis failed", <<>>))
    ELSE Returns(JsonLoads(StripFence(outcome.text)))

\* analyze_with_llm from the answer of send_message on (lines 301-325).
ParseOutcome(outcome) ==
    IF outcome.kind = "exception"
    THEN Raises(HttpError(500, "Analysis failed", <<>>))
    ELSE IF IsJson(StripFence(outcome.text))
    THEN Returns(JsonLoads(StripFence(outcome.text)))
    ELSE Returns(Object(FallbackItems))

\* ------------------------------------------------- the file profile
MaxPreviewRows == 50

\* get_file_preview: the columns, the shape, the dtypes, the count line of
\* describe() and the first max_rows rows.
get_file_preview(t) ==
    [columns |-> [j \in 1..Len(t.cols) |-> t.cols[j].name],
     shape |-> <<t.n, Len(t.cols)>>,
     dtypes |-> [j \in 1..Len(t.cols) |-> t.cols[j].dtype],
     count |-> [j \in 1..Len(t.cols) |-> t.n - NullCount(t, j)],
     head |-> TakeRows(t, [i \in 1..(IF t.n < MaxPreviewRows THEN t.n ELSE MaxPreviewRows) |-> i])]

\* The contents of the file at path in the upload directory.
ContentAt(dir, path) == (CHOOSE f \in dir : f.path = path).content

Exists(dir, path) == \E f \in dir : f.path = path

\* One entry of all_data (lines 204-210).
FileData(path, frame) ==
    [filename |-> path,
     preview |-> get_file_preview(frame),
     columns |-> [j \in 1..Len(frame.cols) |-> frame.cols[j].name],
     shape |-> <<frame.n, Len(frame.cols)>>,
     df |-> frame]

\* A path the read loop reads: it has a known suffix and the file parses.
Readable(dir, path) ==
    /\ path[2] \in ValidExtensions
    /\ Exists(dir, path)
    /\ Parses(ContentAt(dir, path))

\* Lines 193-212: the entries of the files that could be read, in order.
AllData(dir, file_paths) ==
    LET idx == Ordered(1, Len(file_paths),
                       {k \in 1..Len(file_paths) : Readable(dir, file_paths[k])})
    IN  [k \in 1..Len(idx) |->
            FileData(file_paths[idx[k]], ReadFrame(ContentAt(dir, file_paths[idx[k]])))]

\* ------------------------------------------------- POST /api/analyze
\* An analysis that awaits the service: answer is <<>> until it answers.
Call(session_id, all_data) ==
    [session_id |-> session_id, all_data |-> all_data, answer |-> <<>>]

\* [f["path"] for f in files if Path(f["path"]).exists()]
ExistingPaths(dir, files) ==
    LET idx == Ordered(1, Len(files), {k \in 1..Len(files) : Exists(dir, files[k].path)})
    IN  [k \in 1..Len(idx) |-> files[idx[k]].path]

\* analyze_data up to the await of chat.send_message: the error that ends
\* the request before the service is called, if there is one.
EarlyError(session_id) ==
    IF ~Found(sessions, session_id)
    THEN <<SessionNotFound>>
    ELSE IF FindOne(sessions, session_id).files = <<>>
    THEN <<HttpError(400, "No files uploaded", <<>>)>>
    ELSE IF ExistingPaths(uploads, FindOne(sessions, session_id).files) = <<>>
    THEN <<HttpError(400, "No valid files found", <<>>)>>
    ELSE IF ~api_key
    THEN <<HttpError(500, "LLM API key not configured", <<>>)>>
    ELSE IF AllData(uploads, ExistingPaths(uploads, FindOne(sessions, session_id).files)) = <<>>
    THEN <<HttpError(400, "No valid data files found", <<>>)>>
    ELSE <<>>

Awaiting == [status |-> 0, detail |-> Detail("awaiting send_message", <<>>), body |-> <<>>]

analyze_data(session_id) ==
    /\ request' = Request("analyze_data", <<session_id>>, <<>>, <<>>)
    /\ IF EarlyError(session_id) # <<>>
       THEN /\ response' = EarlyError(session_id)[1]
            /\ llm' = llm
       ELSE /\ Len(llm) < MaxInFlight
            /\ uuids + Reserved < MaxUuid
            /\ llm' = Append(llm,
                   Call(session_id,
                        AllData(uploads,
                                ExistingPaths(uploads, FindOne(sessions, session_id).files))))
            /\ response' = Awaiting
    /\ UNCHANGED <<sessions, analyses, uploads, uuids, api_key, inflight, cleanVars>>

\* The service answers call k: a text, or send_message raises.
LlmAnswers(k, outcome) ==
    /\ k \in 1..Len(llm)
    /\ llm[k].answer = <<>>
    /\ llm' = [llm EXCEPT ![k].answer = <<outcome>>]
    /\ UNCHANGED <<sessions, analyses, uploads, uuids, api_key, request, response, inflight, cleanVars>>

\* The keys analyze_data sets itself (lines 472-476).
ServerItems(analysis_id, session_id) ==
    [analysis_id |-> Str(analysis_id),
     session_id |-> Str(session_id),
     instructions |-> Null,
     created_at |-> Str(Now)]

\* {**server items, **analysis_result}: a key of the result wins.
AnalysisDoc(analysis_id, session_id, result) ==
    [type |-> "dict", v |-> result.v @@ ServerItems(analysis_id, session_id)]

IsStr(x) == x.type = "str"

IsListOf(x, type) ==
    /\ x.type = "list"
    /\ \A i \in 1..Len(x.v) : x.v[i].type = type

ResponseFields ==
    {"analysis_id", "session_id", "summary", "key_metrics", "visualizations",
     "problems", "recommendations", "executive_report", "created_at"}

\* AnalysisResponse(**doc) validates.
ValidAnalysis(items) ==
    /\ ResponseFields \subseteq DOMAIN items
    /\ \A k \in {"analysis_id", "session_id", "summary", "executive_report", "created_at"} :
          IsStr(items[k])
    /\ \A k \in {"key_metrics", "visualizations"} : IsListOf(items[k], "dict")
    /\ \A k \in {"problems", "recommendations"} : IsListOf(items[k], "str")

\* The response model: the fields of AnalysisResponse, others ignored.
AnalysisResponse(items) == [k \in ResponseFields |-> items[k]]

\* $push analyses {analysis_id, created_at}
PushAnalysis(doc, analysis_id, created_at) ==
    [doc EXCEPT !.analyses = Append(doc.analyses,
                                    [analysis_id |-> analysis_id, created_at |-> created_at])]

Without(s, k) == Take(s, Ordered(1, Len(s), (1..Len(s)) \ {k}))

\* analyze_data from the answer of the service on: analyze_with_llm returns
\* or raises, then the document is built, stored and validated.
analyze_data_resume(k) ==
    /\ k \in 1..Len(llm)
    /\ llm[k].answer # <<>>
    /\ llm' = Without(llm, k)
    /\ request' = Request("analyze_data", <<llm[k].session_id>>, <<>>, llm[k].answer)
    /\ LET session_id == llm[k].session_id
           got == ParseOutcome(llm[k].answer[1])
           analysis_id == Uuid4(uuids)
       IN  IF got.raised # <<>>
           THEN /\ response' = got.raised[1]
                /\ UNCHANGED <<sessions, analyses, uuids>>
           ELSE IF got.value.type # "dict"
           THEN /\ response' = InternalServerError
                /\ uuids' = uuids + 1
                /\ UNCHANGED <<sessions, analyses>>
           ELSE LET doc == AnalysisDoc(analysis_id, session_id, got.value)
                IN  /\ uuids' = uuids + 1
                    /\ analyses' = Append(analyses, doc)
                    /\ sessions' =
                          IF Found(sessions, session_id)
                          THEN UpdateOne(sessions, session_id,
                                         PushAnalysis(FindOne(sessions, session_id),
                                                      analysis_id, doc.v["created_at"]))
                          ELSE sessions
                    /\ response' = IF ValidAnalysis(doc.v)
                                   THEN Ok(AnalysisResponse(doc.v))
                                   ELSE InternalServerError
    /\ UNCHANGED <<uploads, api_key, inflight, cleanVars>>

\* ------------------------------------- DELETE /api/sessions/{session_id}
delete_session(session_id) ==
    /\ request' = Request("delete_session", <<session_id>>, <<>>, <<>>)
    /\ IF ~Found(sessions, session_id)
       THEN /\ response' = SessionNotFound
            /\ UNCHANGED <<sessions, analyses, uploads>>
       ELSE LET session == FindOne(sessions, session_id)
                paths == {session.files[i].path : i \in 1..Len(session.files)}
            IN  /\ uploads' = {f \in uploads : f.path \notin paths}
                /\ sessions' = DeleteOne(sessions, session_id)
                /\ analyses' = Take(analyses,
                                    Ordered(1, Len(analyses),
                                            {i \in 1..Len(analyses) :
                                                analyses[i].v["session_id"] # Str(session_id)}))
                /\ response' = Ok([message |-> "Session deleted successfully"])
    /\ UNCHANGED <<uuids, api_key, llm, inflight, cleanVars>>

\* ------------------------------------------------------------ the run
\* clean_dataframe is not running: the handlers never call it.
NotCleaning ==
    /\ input = MkFrame(0, <<>>, <<>>)
    /\ df = input
    /\ report = NewReport(input)
    /\ pc = "idle"
    /\ snap = [after2 |-> input, after3 |-> input, after5 |-> input]
    /\ again = <<>>

InitApi ==
    /\ NotCleaning
    /\ api_key \in BOOLEAN
    /\ StoreEmpty

NextApi ==
    \/ \E sent \in SentIds : create_or_get_session(sent)
    \/ \E session_id \in ClientIds \cup SessionIds, files \in FileLists :
          upload_files(session_id, files)
    \/ \E session_id \in ClientIds \cup SessionIds : analyze_data(session_id)
    \/ \E k \in 1..MaxInFlight, outcome \in LlmOutcomes : LlmAnswers(k, outcome)
    \/ \E k \in 1..MaxInFlight : analyze_data_resume(k)
    \/ \E session_id \in ClientIds \cup SessionIds : delete_session(session_id)

SpecApi == InitApi /\ [][NextApi]_vars

\* The event loop resumes a coroutine whose awaited call has returned; the
\* clients and the LLM service are under no obligation to act.
AnalysisResumes == \E k \in 1..MaxInFlight : analyze_data_resume(k)

FairSpecApi == InitApi /\ [][NextApi]_vars /\ WF_vars(AnalysisResumes)

\* ===================================================================
\* The handlers split at their awaits
\* ===================================================================
\* Handlers suspended at an await at one time.
MaxRacing == 2

\* A handler suspended at an await: at names the call it awaits, session_id
\* is the id it works on and sent the session_id field of its request; files,
\* next, uploaded and current_count are the locals of upload_files, answer
\* and doc those of analyze_data (analysis_result and analysis_doc).
Flight(op, session_id, at) ==
    [op |-> op, session_id |-> session_id, at |-> at, sent |-> <<session_id>>,
     files |-> <<>>, next |-> 0, uploaded |-> <<>>, current_count |-> 0,
     answer |-> <<>>, doc |-> <<>>, analysis_id |-> ""]

Room == Len(inflight) < MaxRacing

Suspended(k, op, at) ==
    /\ k \in 1..Len(inflight)
    /\ inflight[k].op = op
    /\ inflight[k].at = at

\* The handler answers without having been suspended.
Answer(req, resp) ==
    /\ request' = req
    /\ response' = resp
    /\ inflight' = inflight

\* Handler k returns or raises: its response goes out.
Leave(k, resp) ==
    /\ request' = Request(inflight[k].op, inflight[k].sent, inflight[k].files,
                          inflight[k].answer)
    /\ response' = resp
    /\ inflight' = Without(inflight, k)

\* Handler k goes on to its next await.
Move(k, flight) ==
    /\ inflight' = [inflight EXCEPT ![k] = flight]
    /\ UNCHANGED <<request, response>>

\* ------------------------------------------------ POST /api/sessions
\* find_one returns; an existing session is returned, a new one is built
\* and insert_one awaited.
create_or_get_session_find_one(sent) ==
    LET session_id == IF Falsy(sent) THEN Uuid4(uuids) ELSE sent[1]
    IN  /\ Room
        /\ Falsy(sent) => uuids < MaxUuid
        /\ uuids' = IF Falsy(sent) THEN uuids + 1 ELSE uuids
        /\ IF Found(sessions, session_id)
           THEN Answer(Request("create_or_get_session", sent, <<>>, <<>>),
                       Ok(SessionResponse(FindOne(sessions, session_id))))
           ELSE /\ inflight' = Append(inflight,
                      [Flight("create_or_get_session", session_id, "insert_one")
                          EXCEPT !.sent = sent])
                /\ UNCHANGED <<request, response>>
        /\ UNCHANGED <<sessions, analyses, uploads, api_key, llm, cleanVars>>

\* insert_one is done; the handler returns the new session.
create_or_get_session_insert_one(k) ==
    /\ Suspended(k, "create_or_get_session", "insert_one")
    /\ sessions' = Append(sessions, NewSession(inflight[k].session_id))
    /\ Leave(k, Ok(SessionResponse(NewSession(inflight[k].session_id))))
    /\ UNCHANGED <<analyses, uploads, uuids, api_key, llm, cleanVars>>

\* -------------------------------------------------- POST /api/upload
\* The files sent while requests race: all of a valid type and parseable
\* (rejected uploads are run under SpecApi).
RaceFileLists ==
    {files \in FileLists :
        \A i \in 1..Len(files) :
            HasValidExtension(files[i].filename) /\ Parses(files[i].content)}

InvalidType(file) == HttpError(400, "Invalid file type", file.filename)

\* find_one returns; the first file is checked and its write awaited.
upload_files_find_one(session_id, files) ==
    /\ Room
    /\ IF ~Found(sessions, session_id)
       THEN Answer(Request("upload_files", <<session_id>>, files, <<>>), SessionNotFound)
       ELSE IF ~HasValidExtension(files[1].filename)
       THEN Answer(Request("upload_files", <<session_id>>, files, <<>>),
                   InvalidType(files[1]))
       ELSE /\ inflight' = Append(inflight,
                  [Flight("upload_files", session_id, "write")
                      EXCEPT !.files = files,
                             !.next = 1,
                             !.current_count = FindOne(sessions, session_id).files_uploaded])
            /\ UNCHANGED <<request, response>>
    /\ UNCHANGED <<sessions, analyses, uploads, uuids, api_key, llm, cleanVars>>

\* The write of file next is done; the file is parsed, then the next file is
\* checked and its write awaited, or update_one is awaited after the last.
upload_files_write(k) ==
    /\ Suspended(k, "upload_files", "write")
    /\ uuids < MaxUuid
    /\ uuids' = uuids + 1
    /\ LET flight == inflight[k]
           file == flight.files[flight.next]
           file_id == Uuid4(uuids)
           file_path == <<file_id, Suffix(file.filename)>>
           uploaded == Append(flight.uploaded,
                              FileInfo(file_id, file, ReadFrame(file.content)))
       IN  IF ~Parses(file.content)
           THEN /\ uploads' = uploads
                /\ Leave(k, HttpError(400, "Error reading file", file.filename))
           ELSE /\ uploads' = uploads \cup {Stored(file_path, file.content)}
                /\ IF flight.next = Len(flight.files)
                   THEN Move(k, [flight EXCEPT !.uploaded = uploaded, !.at = "update_one"])
                   ELSE IF ~HasValidExtension(flight.files[flight.next + 1].filename)
                   THEN Leave(k, InvalidType(flight.files[flight.next + 1]))
                   ELSE Move(k, [flight EXCEPT !.uploaded = uploaded, !.next = @ + 1])
    /\ UNCHANGED <<sessions, analyses, api_key, llm, cleanVars>>

\* update_one is done: it changes the session if there still is one.
upload_files_update_one(k) ==
    /\ Suspended(k, "upload_files", "update_one")
    /\ sessions' =
          IF Found(sessions, inflight[k].session_id)
          THEN UpdateOne(sessions, inflight[k].session_id,
                         PushFiles(FindOne(sessions, inflight[k].session_id),
                                   inflight[k].uploaded))
          ELSE sessions
    /\ Leave(k, Ok(UploadBody(inflight[k].uploaded, inflight[k].current_count)))
    /\ UNCHANGED <<analyses, uploads, uuids, api_key, llm, cleanVars>>

\* ------------------------------------------------- POST /api/analyze
\* The answers of the service while requests race.
RaceOutcomes == {Text(<<"REPORT">>), UpstreamException}

\* find_one returns; the checks run, the files are read and send_message is
\* awaited.
analyze_data_find_one(session_id) ==
    /\ Room
    /\ IF EarlyError(session_id) # <<>>
       THEN Answer(Request("analyze_data", <<session_id>>, <<>>, <<>>),
                   EarlyError(session_id)[1])
       ELSE /\ inflight' = Append(inflight, Flight("analyze_data", session_id, "send_message"))
            /\ UNCHANGED <<request, response>>
    /\ UNCHANGED <<sessions, analyses, uploads, uuids, api_key, llm, cleanVars>>

\* The service answers the call of handler k.
send_message_answered(k, outcome) ==
    /\ Suspended(k, "analyze_data", "send_message")
    /\ inflight[k].answer = <<>>
    /\ Move(k, [inflight[k] EXCEPT !.answer = <<outcome>>])
    /\ UNCHANGED <<sessions, analyses, uploads, uuids, api_key, llm, cleanVars>>

\* send_message returns or raises; the document is built and insert_one
\* awaited.
analyze_data_send_message(k) ==
    /\ Suspended(k, "analyze_data", "send_message")
    /\ inflight[k].answer # <<>>
    /\ LET got == ParseOutcome(inflight[k].answer[1])
           analysis_id == Uuid4(uuids)
       IN  IF got.raised # <<>>
           THEN /\ Leave(k, got.raised[1])
                /\ uuids' = uuids
           ELSE /\ uuids < MaxUuid
                /\ uuids' = uuids + 1
                /\ IF got.value.type # "dict"
                   THEN Leave(k, InternalServerError)
                   ELSE Move(k, [inflight[k] EXCEPT
                                    !.at = "insert_one",
                                    !.analysis_id = analysis_id,
                                    !.doc = <<AnalysisDoc(analysis_id,
                                                          inflight[k].session_id,
                                                          got.value)>>])
    /\ UNCHANGED <<sessions, analyses, uploads, api_key, llm, cleanVars>>

\* insert_one is done; update_one is awaited.
analyze_data_insert_one(k) ==
    /\ Suspended(k, "analyze_data", "insert_one")
    /\ analyses' = Append(analyses, inflight[k].doc[1])
    /\ Move(k, [inflight[k] EXCEPT !.at = "update_one"])
    /\ UNCHANGED <<sessions, uploads, uuids, api_key, llm, cleanVars>>

\* update_one is done; the response is validated and returned.
analyze_data_update_one(k) ==
    /\ Suspended(k, "analyze_data", "update_one")
    /\ sessions' =
          IF Found(sessions, inflight[k].session_id)
          THEN UpdateOne(sessions, inflight[k].session_id,
                         PushAnalysis(FindOne(sessions, inflight[k].session_id),
                                      inflight[k].analysis_id,
                                      inflight[k].doc[1].v["created_at"]))
          ELSE sessions
    /\ Leave(k, IF ValidAnalysis(inflight[k].doc[1].v)
                THEN Ok(AnalysisResponse(inflight[k].doc[1].v))
                ELSE InternalServerError)
    /\ UNCHANGED <<analyses, uploads, uuids, api_key, llm, cleanVars>>

\* ------------------------------------- DELETE /api/sessions/{session_id}
\* find_one returns; the files of the session read are unlinked and
\* delete_one is awaited.
delete_session_find_one(session_id) ==
    /\ Room
    /\ IF ~Found(sessions, session_id)
       THEN /\ Answer(Request("delete_session", <<session_id>>, <<>>, <<>>), SessionNotFound)
            /\ uploads' = uploads
       ELSE LET session == FindOne(sessions, session_id)
                paths == {session.files[i].path : i \in 1..Len(session.files)}
            IN  /\ uploads' = {f \in uploads : f.path \notin paths}
                /\ inflight' = Append(inflight, Flight("delete_session", session_id, "delete_one"))
                /\ UNCHANGED <<request, response>>
    /\ UNCHANGED <<sessions, analyses, uuids, api_key, llm, cleanVars>>

\* delete_one is done; delete_many is awaited.
delete_session_delete_one(k) ==
    /\ Suspended(k, "delete_session", "delete_one")
    /\ sessions' = DeleteOne(sessions, inflight[k].session_id)
    /\ Move(k, [inflight[k] EXCEPT !.at = "delete_many"])
    /\ UNCHANGED <<analyses, uploads, uuids, api_key, llm, cleanVars>>

\* delete_many is done; the handler returns.
delete_session_delete_many(k) ==
    /\ Suspended(k, "delete_session", "delete_many")
    /\ analyses' = Take(analyses,
                        Ordered(1, Len(analyses),
                                {i \in 1..Len(analyses) :
                                    analyses[i].v["session_id"] # Str(inflight[k].session_id)}))
    /\ Leave(k, Ok([message |-> "Session deleted successfully"]))
    /\ UNCHANGED <<sessions, uploads, uuids, api_key, llm, cleanVars>>

\* ------------------------------------------------------------ the run
NextRace ==
    \/ \E sent \in SentIds : create_or_get_session_find_one(sent)
    \/ \E k \in 1..MaxRacing : create_or_get_session_insert_one(k)
    \/ \E session_id \in ClientIds \cup SessionIds, files \in RaceFileLists :
          upload_files_find_one(session_id, files)
    \/ \E k \in 1..MaxRacing : upload_files_write(k)
    \/ \E k \in 1..MaxRacing : upload_files_update_one(k)
    \/ \E session_id \in ClientIds \cup SessionIds : analyze_data_find_one(session_id)
    \/ \E k \in 1..MaxRacing, outcome \in RaceOutcomes : send_message_answered(k, outcome)
    \/ \E k \in 1..MaxRacing : analyze_data_send_message(k)
    \/ \E k \in 1..MaxRacing : analyze_data_insert_one(k)
    \/ \E k \in 1..MaxRacing : analyze_data_update_one(k)
    \/ \E session_id \in ClientIds \cup SessionIds : delete_session_find_one(session_id)
    \/ \E k \in 1..MaxRacing : delete_session_delete_one(k)
    \/ \E k \in 1..MaxRacing : delete_session_delete_many(k)

SpecRace == InitApi /\ [][NextRace]_vars

\* ===================================================================
\* Properties
\* ===================================================================
Returned == pc \in {"done", "recleaned"}

\* Two frames with the same rows, cells and column names.
SameFrame(t, u) ==
    /\ t.n = u.n
    /\ Len(t.cols) = Len(u.cols)
    /\ \A j \in 1..Len(t.cols) :
          /\ j <= Len(u.cols)
          /\ t.cols[j].name = u.cols[j].name
          /\ t.cols[j].dtype = u.cols[j].dtype
          /\ t.cols[j].dtype = u.cols[j].dtype => t.cols[j].cells = u.cols[j].cells

OnlySynthetic(rep) ==
    /\ Len(rep.issues_found) = 1
    /\ Len(rep.actions_taken) = 1
    /\ rep.issues_found[1].kind = "no_issues_found"
    /\ rep.actions_taken[1].kind = "data_was_already_clean"

HasDuplicateRows(t) == \E i, k \in 1..t.n : i < k /\ Row(t, i) = Row(t, k)

\* C1: cleaning is idempotent: cleaning the returned frame again returns the
\* same frame (rows, cells, column names) and a report holding only the
\* synthetic "No data quality issues found" / "Data was already clean" entry.
C1_Idempotent ==
    pc = "recleaned" =>
        /\ SameFrame(again[1].df, df)
        /\ OnlySynthetic(again[1].report)

\* C2: the returned frame holds no two rows that are identical across all
\* columns, rows that become identical in step 5 included.
C2_NoDuplicateRows == Returned => ~HasDuplicateRows(df)

\* The column of t that came from input column id (a one-element set, or {}).
ColumnsOf(t, id) == {j \in 1..Len(t.cols) : t.cols[j].id = id}

Logged(rep, issueKind, actionKind, name) ==
    \E k \in 1..Len(rep.issues_found) :
        /\ k <= Len(rep.actions_taken)
        /\ rep.issues_found[k].kind = issueKind
        /\ rep.issues_found[k].col = name
        /\ rep.actions_taken[k].kind = actionKind
        /\ rep.actions_taken[k].col = name

\* More than half of the cells of column j of t are missing.
MostlyMissing(t, j) == 2 * NullCount(t, j) > t.n

HalfMissing(t, j) == NullCount(t, j) > 0 /\ 2 * NullCount(t, j) = t.n

\* C3 as stated, its first half: every column of the input frame with more
\* than 50% of its cells missing is absent from the returned frame.
C3_InputColumnDropped ==
    pc = "done" =>
        \A j \in 1..Len(input.cols) :
            MostlyMissing(input, j) => ColumnsOf(df, input.cols[j].id) = {}

\* C3 amended: every column with more than 50% of its cells missing in the
\* frame that remains after steps 1-2 is absent from the returned frame and
\* its drop is logged with the column name and the '>50% nulls' action; a
\* column with exactly 50% missing there is kept and filled.
C3_ColumnDroppedAfterStep2 ==
    pc = "done" =>
        \A j \in 1..Len(snap.after2.cols) :
            LET id == snap.after2.cols[j].id
            IN  /\ MostlyMissing(snap.after2, j) =>
                       /\ ColumnsOf(df, id) = {}
                       /\ Logged(report, "column_null_pct", "removed_column_gt50_nulls",
                                 snap.after2.cols[j].name)
                /\ HalfMissing(snap.after2, j) =>
                       /\ ColumnsOf(df, id) # {}
                       /\ \A k \in ColumnsOf(snap.after3, id) : NullCount(snap.after3, k) = 0
                       /\ ~Logged(report, "column_null_pct", "removed_column_gt50_nulls",
                                  snap.after2.cols[j].name)

\* A run that dropped a column for >50% nulls in step 3 and kept another one.
C3_Witness ==
    /\ pc = "done"
    /\ \E j \in 1..Len(snap.after2.cols) : MostlyMissing(snap.after2, j)
    /\ Len(df.cols) > 0

\* The name the specification asks for: trimmed, the characters that are
\* neither alphanumeric nor whitespace removed, every run of whitespace
\* replaced by one underscore.
RECURSIVE CollapseRuns(_)
CollapseRuns(s) ==
    IF s = <<>> THEN <<>>
    ELSE IF Head(s) \in SpaceChars
    THEN IF Len(s) > 1 /\ s[2] \in SpaceChars THEN CollapseRuns(Tail(s))
         ELSE <<"_">> \o CollapseRuns(Tail(s))
    ELSE <<Head(s)>> \o CollapseRuns(Tail(s))

ExpectedName(name) == CollapseRuns(RemoveSpecial(Strip(name)))

\* C4: every column name of the returned frame holds only alphanumeric
\* characters and underscores, has no leading or trailing whitespace, and has
\* every run of whitespace of the original name replaced by one underscore.
C4_NamesStandardized ==
    pc = "done" =>
        \A j \in 1..Len(df.cols) :
            LET name == df.cols[j].name
                orig == input.cols[df.cols[j].id].name
            IN  /\ \A i \in 1..Len(name) : name[i] \in WordChars
                /\ name # <<>> => name[1] \notin SpaceChars /\ name[Len(name)] \notin SpaceChars
                /\ name = ExpectedName(orig)

\* C5: the report's final row and column counts do not exceed the original
\* ones, the original ones being the counts of the input frame and the final
\* ones those of the returned frame.
C5_CountsDoNotGrow ==
    pc = "done" =>
        /\ report.original_rows = input.n
        /\ report.original_columns = Len(input.cols)
        /\ report.final_rows = df.n
        /\ report.final_columns = Len(df.cols)
        /\ report.final_rows <= report.original_rows
        /\ report.final_columns <= report.original_columns

\* A run that removed rows and columns of a frame with more rows than columns.
C5_Witness ==
    /\ pc = "done"
    /\ input.n > Len(input.cols)
    /\ 0 < report.final_rows /\ report.final_rows < report.original_rows
    /\ 0 < report.final_columns /\ report.final_columns < report.original_columns

\* C6: a report that holds only the synthetic entry means the returned frame
\* is the input frame (same rows, cells, column names), and the synthetic
\* entry is recorded exactly when no step logged an issue.
C6_SyntheticMeansUnchanged ==
    pc = "done" =>
        /\ OnlySynthetic(report) => SameFrame(df, input)
        /\ (\E k \in 1..Len(report.issues_found) : report.issues_found[k].kind = "no_issues_found")
               => OnlySynthetic(report)

NoNulls(t) == \A j \in 1..Len(t.cols) : NullCount(t, j) = 0

\* A text cell that is empty after trimming or one of the null literals.
NullLikeText(cell) ==
    \/ \A i \in 1..Len(cell) : cell[i] \in SpaceChars
    \/ \E lit \in {<<"n", "a", "n">>, <<"N", "o", "n", "e">>, <<"N", "a", "N">>, <<"n", "u", "l", "l">>} :
           \E a \in 0..Len(cell), b \in 0..Len(cell) :
               /\ a + Len(lit) + b = Len(cell)
               /\ \A i \in 1..a : cell[i] \in SpaceChars
               /\ \A i \in 1..Len(lit) : cell[a + i] = lit[i]
               /\ \A i \in 1..b : cell[a + Len(lit) + i] \in SpaceChars

NoNullLikeText(t) ==
    \A j \in 1..Len(t.cols) :
        t.cols[j].dtype = "obj" =>
            \A i \in 1..t.n : t.cols[j].cells[i] # NA => ~NullLikeText(t.cols[j].cells[i])

\* No nulls, no duplicate rows, no null-like text cells.
CleanInput(t) == NoNulls(t) /\ ~HasDuplicateRows(t) /\ NoNullLikeText(t)

LogNeverEmpty == Len(report.issues_found) >= 1 /\ Len(report.actions_taken) >= 1

UntouchedReport ==
    /\ OnlySynthetic(report)
    /\ report.final_rows = report.original_rows
    /\ report.data_quality_score = 1000

\* C7 as stated: the log of a completed run is never empty, and for every
\* frame with no nulls, no duplicates and no null-like text cells the log is
\* exactly the synthetic entry, final_rows = original_rows and the score 100.0.
C7_CleanInputScores100 ==
    pc = "done" => LogNeverEmpty /\ (CleanInput(input) => UntouchedReport)

\* C7 amended: the log of a completed run is never empty, and for every frame
\* that holds at least one cell (a row and a column), no nulls, no duplicates
\* and no null-like text cells the log is exactly the synthetic entry,
\* final_rows = original_rows and the score 100.0.
C7_NonEmptyCleanInputScores100 ==
    pc = "done" =>
        /\ LogNeverEmpty
        /\ (input.n >= 1 /\ Len(input.cols) >= 1 /\ CleanInput(input)) => UntouchedReport

\* A clean frame of several rows, one of them needing a trim, was cleaned.
C7_Witness ==
    /\ pc = "done"
    /\ input.n >= 2
    /\ Len(input.cols) >= 2
    /\ CleanInput(input)
    /\ ~SameFrame(df, input)
    /\ UntouchedReport

\* C8: data_quality_score is final_rows / max(original_rows, 1) * 100 rounded
\* to one decimal (held in tenths: the nearest tenth to the quotient), lies in
\* [0, 100], and is 0 when original_rows is 0.
C8_QualityScore ==
    pc = "done" =>
        LET m == IF input.n >= 1 THEN input.n ELSE 1
            score == report.data_quality_score
        IN  /\ 2 * (score * m - df.n * 1000) <= m
            /\ 2 * (df.n * 1000 - score * m) <= m
            /\ 0 <= score /\ score <= 1000
            /\ input.n = 0 => score = 0

\* A run whose score needed rounding up (two rows of three kept: 66.7).
C8_Witness ==
    /\ pc = "done"
    /\ input.n > 0
    /\ (df.n * 1000) % input.n # 0
    /\ report.data_quality_score * input.n > df.n * 1000

\* The numeric column j of t, read as the sequence of its non-null values.
Values(t, j) == [k \in 1..Len(NonNull(t.cols[j])) |-> NonNull(t.cols[j])[k][1]]

\* v is the k-th smallest of the values vs (duplicates counted).
IsKthSmallest(vs, k, v) ==
    /\ \E i \in 1..Len(vs) : vs[i] = v
    /\ Cardinality({i \in 1..Len(vs) : vs[i] < v}) < k
    /\ Cardinality({i \in 1..Len(vs) : vs[i] <= v}) >= k

\* m is the median of vs: the mean of its two middle values (which are the
\* same value when the count is odd).
IsMedian(vs, m) ==
    \E i, k \in 1..Len(vs) :
        /\ IsKthSmallest(vs, (Len(vs) + 1) \div 2, vs[i])
        /\ IsKthSmallest(vs, Len(vs) \div 2 + 1, vs[k])
        /\ 2 * m = vs[i] + vs[k]

NeedsMedian(t, j) ==
    /\ t.cols[j].dtype = "num"
    /\ NullCount(t, j) > 0
    /\ 2 * NullCount(t, j) <= t.n

\* C9: from step 3 on, every numeric column that had missing cells, at most
\* 50% of them, after steps 1-2 has each missing cell replaced by the median
\* of the values it held then (duplicate rows not yet removed), and its other
\* cells unchanged.
C9_MedianFill ==
    pc \notin {"step1", "step2", "step3"} =>
        \A j \in 1..Len(snap.after2.cols) :
            NeedsMedian(snap.after2, j) =>
                \E k \in ColumnsOf(snap.after3, snap.after2.cols[j].id) :
                    \A i \in 1..snap.after2.n :
                        LET before == snap.after2.cols[j].cells[i]
                            after == snap.after3.cols[k].cells[i]
                        IN  IF before = NaN
                            THEN after # NaN /\ IsMedian(Values(snap.after2, j), after[1])
                            ELSE after = before

\* A median was filled in a frame that still held a duplicate row, and the
\* duplicate moves the median.
C9_Witness ==
    /\ pc = "done"
    /\ HasDuplicateRows(snap.after3)
    /\ \E j \in 1..Len(snap.after2.cols) :
          /\ NeedsMedian(snap.after2, j)
          /\ \E v \in Range(Values(snap.after2, j)) :
                ~IsMedian(Values(snap.after2, j), v)
                /\ Cardinality(Range(Values(snap.after2, j))) = 2
                /\ Len(Values(snap.after2, j)) = 3

HasSpaceAtEnds(cell) ==
    cell # <<>> /\ (cell[1] \in SpaceChars \/ cell[Len(cell)] \in SpaceChars)

\* C10: the returned frame holds no missing cell and no text cell that is
\* empty after trimming or a null literal; step 6 removes exactly the rows
\* that hold a missing cell after step 5; the text cells that remain have no
\* leading or trailing whitespace.
C10_NoMissingCells ==
    pc = "done" =>
        /\ NoNulls(df)
        /\ NoNullLikeText(df)
        /\ \A j \in 1..Len(df.cols) :
              df.cols[j].dtype = "obj" => \A i \in 1..df.n : ~HasSpaceAtEnds(df.cols[j].cells[i])
        /\ df.n = Cardinality({i \in 1..snap.after5.n : ~RowAnyNull(snap.after5, i)})
        /\ \A i \in 1..df.n : \E k \in 1..snap.after5.n :
              ~RowAnyNull(snap.after5, k) /\ Row(snap.after5, k) = Row(df, i)

\* Step 5 turned a whitespace-only cell and a null literal into missing cells,
\* step 6 removed their rows and kept a trimmed cell.
C10_Witness ==
    /\ pc = "done"
    /\ df.n >= 1
    /\ \E j \in 1..Len(input.cols) :
          /\ input.cols[j].dtype = "obj"
          /\ \E i, k, l \in 1..input.n :
                /\ input.cols[j].cells[i] = <<" ">>
                /\ input.cols[j].cells[k] = <<"n", "a", "n">>
                /\ input.cols[j].cells[l] = <<"x", " ">>
    /\ \E i \in 1..snap.after5.n : RowAnyNull(snap.after5, i)

\* A frame without cells: no rows, or no columns.
NoCells(t) == t.n = 0 \/ Len(t.cols) = 0

\* C11: a zero-row or zero-column frame passes through unchanged: the returned
\* frame is the input frame, the row counters original_rows, final_rows and
\* rows_removed are all zero and data_quality_score is 0 or 100.
C11_EmptyPassesThrough ==
    pc = "done" /\ NoCells(input) =>
        /\ SameFrame(df, input)
        /\ report.original_rows = 0
        /\ report.final_rows = 0
        /\ report.rows_removed = 0
        /\ report.data_quality_score \in {0, 1000}

\* ===================================================================
\* Properties of the handlers
\* ===================================================================
\* An analysis was sent to the LLM service and has not been resumed yet.
InFlight == llm # <<>>

\* The profile p is the one get_file_preview computes from frame t.
ProfileOf(p, t) ==
    /\ p.columns = get_file_preview(t).columns
    /\ p.shape = get_file_preview(t).shape
    /\ p.dtypes = get_file_preview(t).dtypes
    /\ p.count = get_file_preview(t).count
    /\ SameFrame(p.head, get_file_preview(t).head)

\* C12: the profile handed to the LLM service for each file is computed from
\* the frame clean_dataframe returns for the parsed frame of that file.
C12_ProfileOfCleanedTable ==
    \A k \in 1..Len(llm) :
        \A i \in 1..Len(llm[k].all_data) :
            ProfileOf(llm[k].all_data[i].preview,
                      CleanDataframe(llm[k].all_data[i].df).df)

\* The request handled last was an analysis resumed with a text of the service.
AnsweredWithText ==
    /\ request.op = "analyze_data"
    /\ request.answer # <<>>
    /\ request.answer[1].kind = "text"

\* The keys of a ReportDocument.
ReportKeys ==
    {"summary", "key_metrics", "visualizations", "problems", "recommendations",
     "executive_report"}

\* The text holds a JSON object with the keys of a ReportDocument, each of
\* its type.
WellFormedReport(text) ==
    /\ IsJson(StripFence(text))
    /\ JsonLoads(StripFence(text)).type = "dict"
    /\ LET items == JsonLoads(StripFence(text)).v
       IN  /\ ReportKeys \subseteq DOMAIN items
           /\ IsStr(items["summary"])
           /\ IsStr(items["executive_report"])
           /\ IsListOf(items["key_metrics"], "dict")
           /\ IsListOf(items["visualizations"], "dict")
           /\ IsListOf(items["problems"], "str")
           /\ IsListOf(items["recommendations"], "str")

\* The response is a success whose body is the fallback document.
FallbackReturned ==
    /\ response.status = 200
    /\ \A key \in ReportKeys : response.body[key] = FallbackItems[key]

\* The analyses collection holds the fallback document under the analysis_id
\* of the response.
FallbackPersisted ==
    \E i \in 1..Len(analyses) :
        /\ analyses[i].v["analysis_id"] = response.body["analysis_id"]
        /\ \A key \in ReportKeys : analyses[i].v[key] = FallbackItems[key]

\* C13: an analysis whose LLM response is not a well-formed ReportDocument
\* (valid JSON of another shape included) ends as the fallback case: a success
\* whose document is the fallback document, stored in the analyses collection.
C13_MalformedResponseIsFallback ==
    AnsweredWithText /\ ~WellFormedReport(request.answer[1].text) =>
        FallbackReturned /\ FallbackPersisted

\* C14: when the text of the service is not JSON, the analysis ends as a
\* success whose body is the fallback document (key_metrics and visualizations
\* empty, the one problem, the one recommendation, the placeholder summary and
\* executive_report), and that document is stored in the analyses collection.
C14_NonJsonGivesFallback ==
    AnsweredWithText /\ ~IsJson(StripFence(request.answer[1].text)) =>
        FallbackReturned /\ FallbackPersisted

C14_Witness ==
    /\ AnsweredWithText
    /\ request.answer[1].text = <<"prose">>
    /\ response.status = 200
    /\ response.body["problems"] = List(<<Str("Unable to parse analysis results")>>)
    /\ Len(analyses) = 1

\* The step is the LLM service answering a call: the only step that is not a
\* handler's.
ServiceStep ==
    /\ Len(llm') = Len(llm)
    /\ \E k \in 1..Len(llm) : llm[k].answer = <<>> /\ llm'[k].answer # <<>>

\* The step handles an upload request to a session that exists.
UploadStep ==
    /\ ~ServiceStep
    /\ request'.op = "upload_files"
    /\ Found(sessions, request'.session_id[1])

\* The first file of the list a check of the upload loop stops at, 0 if none.
FirstBad(files) ==
    IF \E i \in 1..Len(files) :
          ~HasValidExtension(files[i].filename) \/ ~Parses(files[i].content)
    THEN Min({i \in 1..Len(files) :
                ~HasValidExtension(files[i].filename) \/ ~Parses(files[i].content)})
    ELSE 0

HasInvalidType(files) == \E i \in 1..Len(files) : ~HasValidExtension(files[i].filename)

FirstInvalidType(files) ==
    Min({i \in 1..Len(files) : ~HasValidExtension(files[i].filename)})

\* C15: an upload holding a file of another extension than .csv, .xlsx, .xls
\* is answered 400 "Invalid file type" naming that file, and the step leaves
\* the upload directory and the sessions collection as they were, wherever
\* the file stands in the request.
C15_InvalidTypeLeavesNothing ==
    [][UploadStep /\ HasInvalidType(request'.files) =>
          /\ response'.status = 400
          /\ response'.detail.filename
                = request'.files[FirstInvalidType(request'.files)].filename
          /\ uploads' = uploads
          /\ sessions' = sessions]_vars

\* C16: when a file of a valid extension cannot be parsed during an upload of
\* several files, the upload is answered 400 naming that file, and the step
\* leaves the upload directory (the failing file and the earlier ones are
\* removed) and the sessions collection as they were.
C16_ParseFailureLeavesNothing ==
    [][/\ UploadStep
       /\ Len(request'.files) >= 2
       /\ FirstBad(request'.files) > 0
       /\ HasValidExtension(request'.files[FirstBad(request'.files)].filename)
       =>
          /\ response'.status = 400
          /\ response'.detail.msg = "Error reading file"
          /\ response'.detail.filename = request'.files[FirstBad(request'.files)].filename
          /\ uploads' = uploads
          /\ sessions' = sessions]_vars

SessionCreated ==
    /\ request.op = "create_or_get_session"
    /\ request.session_id = <<>>
    /\ response.status = 200

\* C18: the response of a successful session creation without a session_id
\* holds a non-empty session_id and the fields files_uploaded, max_files and
\* created_at.
C18_SessionCreationFields ==
    SessionCreated =>
        /\ {"session_id", "files_uploaded", "max_files", "created_at"}
              \subseteq DOMAIN response.body
        /\ response.body.session_id # ""

\* C19: no analysis blocks for ever: an analysis that awaits the LLM service
\* is in the end resumed and answered (by a timeout error if the service
\* never answers).
C19_NoAnalysisBlocksForever == InFlight ~> ~InFlight

\* The step is one of analyze_data: its start or its resumption.
AnalyzeStep ==
    /\ ~ServiceStep
    /\ request'.op = "analyze_data"

\* The request handled last was an analysis resumed with send_message raising.
AnsweredWithException ==
    /\ request.op = "analyze_data"
    /\ request.answer # <<>>
    /\ request.answer[1].kind = "exception"

\* C20: with the API key missing, or with send_message raising, analyze_data
\* answers with an error and stores nothing: the analyses collection and the
\* sessions collection (the analyses list of the session) stay as they were.
C20_ServiceFailurePersistsNothing ==
    [][AnalyzeStep /\ (~api_key \/ AnsweredWithException') =>
          /\ response'.status >= 400
          /\ analyses' = analyses
          /\ sessions' = sessions]_vars

C20_Witness ==
    /\ AnsweredWithException
    /\ response.status = 500
    /\ response.detail.msg = "Analysis failed"
    /\ Found(sessions, request.session_id[1])
    /\ FindOne(sessions, request.session_id[1]).analyses = <<>>
    /\ analyses = <<>>

\* The API key is missing and an analysis of a session with files was refused.
C20_MissingKeyCase ==
    /\ ~api_key
    /\ request.op = "analyze_data"
    /\ response.status = 500
    /\ response.detail.msg = "LLM API key not configured"
    /\ analyses = <<>>

\* ===================================================================
\* Properties of the report, of the column names and of racing requests
\* ===================================================================
\* The log s is the beginning of the log t (entries told by kind and count).
LogPrefix(s, t) ==
    /\ Len(s) <= Len(t)
    /\ \A k \in 1..Len(s) : s[k].kind = t[k].kind /\ s[k].n = t[k].n

RowRemovals ==
    {"removed_empty_rows", "removed_duplicate_rows", "removed_rows_with_remaining_nulls"}

\* The rows the log says were removed, by steps 1, 4 and 6 together.
RowsLoggedAsRemoved(rep) ==
    SeqSum([k \in 1..Len(rep.actions_taken) |->
               IF rep.actions_taken[k].kind \in RowRemovals
               THEN rep.actions_taken[k].n
               ELSE 0])

\* C21: issues_found and actions_taken have the same length in every state,
\* every step only appends to them, and on return rows_removed is
\* original_rows - final_rows and equals the sum of the rows logged as removed
\* by step 1, step 4 and step 6.
C21_LogAndCountersConsistent ==
    /\ [](Len(report.issues_found) = Len(report.actions_taken))
    /\ [][/\ LogPrefix(report.issues_found, report'.issues_found)
          /\ LogPrefix(report.actions_taken, report'.actions_taken)]_vars
    /\ [](pc = "done" =>
            /\ report.rows_removed = report.original_rows - report.final_rows
            /\ report.final_rows = df.n
            /\ report.rows_removed = RowsLoggedAsRemoved(report))

\* A run in which steps 1, 4 and 6 each removed rows.
C21_Witness ==
    /\ pc = "done"
    /\ \A kind \in RowRemovals :
          \E k \in 1..Len(report.actions_taken) :
              report.actions_taken[k].kind = kind /\ report.actions_taken[k].n >= 1
    /\ report.rows_removed >= 3
    /\ df.n >= 1

\* The column names of t are pairwise distinct.
DistinctNames(t) ==
    \A j, k \in 1..Len(t.cols) : j # k => t.cols[j].name # t.cols[k].name

\* C22: for every input frame whose column names are pairwise distinct, the
\* column names of the returned frame are pairwise distinct.
C22_NamesStayUnique ==
    pc = "done" /\ DistinctNames(input) => DistinctNames(df)

\* The analyses collection holds a document with the server's values for
\* analysis_id, session_id and created_at.
HoldsServerDoc(analysis_id, session_id) ==
    \E i \in 1..Len(analyses) :
        /\ analyses[i].v["analysis_id"] = Str(analysis_id)
        /\ analyses[i].v["session_id"] = Str(session_id)
        /\ analyses[i].v["created_at"] = Str(Now)

\* C23: every identifier in the analyses list of a session refers to a stored
\* analysis document that carries that analysis_id, the session_id of the
\* session and the created_at of the server, whatever keys the LLM result has.
C23_HistoryRefersToStoredDoc ==
    \A k \in 1..Len(sessions) :
        \A e \in 1..Len(sessions[k].analyses) :
            HoldsServerDoc(sessions[k].analyses[e].analysis_id, sessions[k].session_id)

\* No handler is suspended at an await.
Quiescent == inflight = <<>>

\* C24: once delete_session has returned success and every request in flight
\* has finished, nothing of the deleted session remains.  The upload directory
\* names a file by a uuid alone, so the property is stated where no session
\* document is left: every session there was has then been deleted with
\* success, and no analysis document and no uploaded file may remain.
C24_DeleteLeavesNothing ==
    Quiescent /\ sessions = <<>> => analyses = <<>> /\ uploads = {}

\* The step sends a response: a suspended handler leaves, or a handler answers
\* without having been suspended.
Responds ==
    \/ Len(inflight') < Len(inflight)
    \/ /\ Len(inflight') = Len(inflight)
       /\ \A k \in 1..Len(inflight) :
             /\ inflight'[k].at = inflight[k].at
             /\ inflight'[k].next = inflight[k].next
             /\ Len(inflight'[k].answer) = Len(inflight[k].answer)

AtMostOneDocPerId ==
    \A j, k \in 1..Len(sessions) :
        j # k => sessions[j].session_id # sessions[k].session_id

\* C25: whatever the interleaving of the calls of create_or_get_session, the
\* sessions collection holds at most one document per session_id after every
\* step, and a call that returns for a session_id the collection already
\* holds leaves the collection as it was and returns the session stored there.
C25_GetOrCreateUnderConcurrency ==
    [][/\ AtMostOneDocPerId'
       /\ (/\ Responds
           /\ request'.op = "create_or_get_session"
           /\ response'.status = 200
           /\ Found(sessions, response'.body.session_id))
          => /\ sessions' = sessions
             /\ response'.body
                   = SessionResponse(FindOne(sessions, response'.body.session_id))]_vars

====
